---- MODULE Spec2Model ----
(***************************************************************************)
(* Model of erm_psychopy_data_cleaner.py: the handler                      *)
(* process_experiment_data, which reads every CSV file of a folder, cleans *)
(* the path columns, merges the practice and experimental response         *)
(* columns, orders the columns, drops the non-trial rows and writes the    *)
(* concatenation of the per-file tables to one CSV file.                   *)
(*                                                                         *)
(* A text is a sequence of one-character strings.  A cell of a table is a  *)
(* record [kind, s, n]: a missing value (NaN or None, which pandas' isna   *)
(* treats alike), a text, or a number.  The library calls are modelled     *)
(* with the semantics of pandas 1.4 - 2.x on object columns: astype(str)   *)
(* turns a missing value into the text "nan", Series.replace('nan', None)  *)
(* puts None in place of the cells equal to 'nan', concat keeps the        *)
(* columns in order of first appearance.                                   *)
(***************************************************************************)
EXTENDS Integers, Sequences, FiniteSets, TLC

VARIABLES
    disk,                   \* the *.csv files of the data folder, in glob order
    pc,                     \* "idle" | "loop": position in the handler
    stage,                  \* "first" | "second" | "over": which launch of the tool
    output_filename,        \* line 12 (and 91)
    summary_mode,           \* line 13
    in_folder,              \* whether output_filename resolves into the data folder
    csv_files,              \* line 26
    next_file,              \* index in csv_files of the file the loop reads next
    processed_dataframes,   \* line 27 / 82
    kept_from,              \* index in csv_files each processed table came from
    errors,                 \* indices of the files reported at line 85
    outcome,                \* what the last call of the handler showed the user
    master_df,              \* line 89
    written,                \* the table the last to_csv wrote, if any
    first_run,              \* record of the first completed launch
    value,                  \* a cell, or a table, handed to one pipeline step
    result,                 \* what the step made of it
    step                    \* which step has been applied to value

vars == <<disk, pc, stage, output_filename, summary_mode, in_folder, csv_files,
          next_file, processed_dataframes, kept_from, errors, outcome,
          master_df, written, first_run, value, result, step>>

run_vars == <<disk, pc, stage, output_filename, summary_mode, in_folder,
              csv_files, next_file, processed_dataframes, kept_from, errors,
              outcome, master_df, written, first_run>>

step_vars == <<value, result, step>>

(***************************************************************************)
(* Bounds of the model.                                                    *)
(***************************************************************************)
MaxFiles == 2       \* files in the data folder
MaxPathLen == 3     \* characters of a path value
MaxKeyLen == 5      \* characters of a response value
MaxMergeRows == 2   \* rows of a table handed to the merge step

(***************************************************************************)
(* Cells and texts.                                                        *)
(***************************************************************************)
NaN == [kind |-> "nan", s |-> <<>>, n |-> 0]
Str(t) == [kind |-> "str", s |-> t, n |-> 0]
Num(k) == [kind |-> "num", s |-> <<>>, n |-> k]

isna(c) == c.kind = "nan"

nan_text == <<"n", "a", "n">>
num_prefix == <<"n", "u", "m", "_">>
csv_suffix == <<".", "c", "s", "v">>

Digits == <<"0", "1", "2", "3", "4", "5", "6", "7", "8", "9">>

RECURSIVE IntText(_)
IntText(k) ==
    IF k < 10 THEN <<Digits[k + 1]>>
    ELSE IntText(k \div 10) \o <<Digits[(k % 10) + 1]>>

\* Series.astype(str), cell by cell: str(nan) is 'nan', a text is itself.
AsTypeStr(c) ==
    CASE c.kind = "nan" -> nan_text
      [] c.kind = "str" -> c.s
      [] c.kind = "num" -> IntText(c.n)

\* re.sub(r'.*SEP', '', t): '.' matches every character but a line feed, so
\* a match runs from where the scan stands to the last SEP of that line.
\* Character i survives iff no SEP follows it (or is it) on its own line.
RegexStripThrough(t, sep) ==
    LET Eaten(i) == \E j \in i..Len(t) :
                        /\ t[j] = sep
                        /\ \A k \in i..j : t[k] # "\n"
        Keep[i \in 1..(Len(t) + 1)] ==
            IF i > Len(t) THEN <<>>
            ELSE IF Eaten(i) THEN Keep[i + 1]
            ELSE <<t[i]>> \o Keep[i + 1]
    IN Keep[1]

\* Line 38 with the second replace forgotten.
CleanPathValueBackslashOnly(c) ==
    Str(RegexStripThrough(AsTypeStr(c), "\\"))

\* Line 38 for one cell.
CleanPathValue(c) ==
    Str(RegexStripThrough(RegexStripThrough(AsTypeStr(c), "\\"), "/"))

Lower(ch) ==
    CASE ch = "N" -> "n"
      [] ch = "U" -> "u"
      [] ch = "M" -> "m"
      [] ch = "A" -> "a"
      [] OTHER -> ch

StartsWithCI(t, pat) ==
    /\ Len(t) >= Len(pat)
    /\ \A i \in 1..Len(pat) : Lower(t[i]) = pat[i]

\* Series.str.replace(pat, '', case=False): with case=False pandas compiles
\* re.escape(pat) with re.IGNORECASE and calls pat.sub('', x), which removes
\* every non-overlapping occurrence, scanning from the left.
RECURSIVE StrReplaceCI(_, _)
StrReplaceCI(t, pat) ==
    IF t = <<>> THEN <<>>
    ELSE IF StartsWithCI(t, pat)
         THEN StrReplaceCI(SubSeq(t, Len(pat) + 1, Len(t)), pat)
         ELSE <<Head(t)>> \o StrReplaceCI(Tail(t), pat)

\* Series.replace('nan', None) for one cell: the whole cell must equal 'nan',
\* in that case; since pandas 1.4 an explicit None is the replacement value.
ReplaceNanNone(t) == IF t = nan_text THEN NaN ELSE Str(t)

\* Line 59 for one cell.
CleanResponse(c) == ReplaceNanNone(StrReplaceCI(AsTypeStr(c), num_prefix))

(***************************************************************************)
(* Tables.  A table is [columns, rows]: the column names in order and the  *)
(* rows in order, each row a function from the column names to cells.      *)
(***************************************************************************)
Range(q) == {q[i] : i \in DOMAIN q}

EmptyFrame == [columns |-> <<>>, rows |-> <<>>]

\* df[col] = series: a new column goes last, an existing one keeps its place.
SetColumn(df, col, series) ==
    [columns |-> IF col \in Range(df.columns) THEN df.columns
                 ELSE Append(df.columns, col),
     rows |-> [r \in DOMAIN df.rows |->
                  [c \in Range(df.columns) \cup {col} |->
                      IF c = col THEN series[r] ELSE df.rows[r][c]]]]

\* df[cols]: the named columns, in the order named.
Project(df, cols) ==
    [columns |-> cols,
     rows |-> [r \in DOMAIN df.rows |-> [c \in Range(cols) |-> df.rows[r][c]]]]

path_columns == <<"image_file", "music_file">>

\* Lines 36-38.
RECURSIVE CleanPathsFrom(_, _)
CleanPathsFrom(df, k) ==
    IF k > Len(path_columns) THEN df
    ELSE LET col == path_columns[k]
         IN IF col \in Range(df.columns)
            THEN CleanPathsFrom(
                     SetColumn(df, col,
                         [r \in DOMAIN df.rows |-> CleanPathValue(df.rows[r][col])]),
                     k + 1)
            ELSE CleanPathsFrom(df, k + 1)

CleanPaths(df) == CleanPathsFrom(df, 1)

\* Lines 42-48, in the dictionary's insertion order.
merging_map == <<
    [new_col |-> "valence", source_cols |-> <<"valence_resp.keys", "practice_valence_resp.keys">>],
    [new_col |-> "arousal", source_cols |-> <<"arousal_resp.keys", "practice_arousal_resp.keys">>],
    [new_col |-> "fear",    source_cols |-> <<"fear_resp.keys", "practice_fear_resp.keys">>],
    [new_col |-> "anger",   source_cols |-> <<"anger_resp.keys", "practice_anger_resp.keys">>],
    [new_col |-> "sadness", source_cols |-> <<"sadness_resp.keys", "practice_sadness_resp.keys">> ] >>

\* Line 51 iterating the table's columns instead of source_cols.
ValidColsFileOrder(df, source_cols) ==
    SelectSeq(df.columns, LAMBDA c : c \in Range(source_cols))

\* Line 51.
ValidCols(df, source_cols) ==
    SelectSeq(source_cols, LAMBDA c : c \in Range(df.columns))

\* Series.fillna(other) for one row: the other's cell where this one is missing.
FillNa(c, other) == IF isna(c) THEN other ELSE c

\* Lines 54-56 for one row: valid_cols[0], then fillna with each next column.
RECURSIVE MergedCell(_, _, _)
MergedCell(row, valid_cols, k) ==
    IF k = 1 THEN row[valid_cols[1]]
    ELSE FillNa(MergedCell(row, valid_cols, k - 1), row[valid_cols[k]])

\* Lines 51-59 for one entry of the map.
MergeOne(df, entry) ==
    LET valid_cols == ValidCols(df, entry.source_cols)
    IN IF valid_cols = <<>> THEN df
       ELSE SetColumn(df, entry.new_col,
                [r \in DOMAIN df.rows |->
                    CleanResponse(MergedCell(df.rows[r], valid_cols, Len(valid_cols)))])

\* Lines 50-59.
RECURSIVE MergeFrom(_, _)
MergeFrom(df, k) ==
    IF k > Len(merging_map) THEN df
    ELSE MergeFrom(MergeOne(df, merging_map[k]), k + 1)

MergeResponses(df) == MergeFrom(df, 1)

\* Lines 62-67.
priority_columns == <<
    "participant", "order", "set", "trial", "block", "trial_block",
    "picture_type", "image_file", "music_type", "music_file",
    "iti_duration", "probed_trial", "probed_iti", "probe_start_trial", "probe_start_iti",
    "valence", "arousal", "fear", "anger", "sadness" >>

\* Line 70.
ExistingPriority(df) ==
    SelectSeq(priority_columns, LAMBDA c : c \in Range(df.columns))

\* Lines 70-78 with full mode keeping only the other columns.
SelectColumnsFullOthersOnly(df, mode) ==
    LET existing_priority == ExistingPriority(df)
        other_columns == SelectSeq(df.columns,
                             LAMBDA c : c \notin Range(existing_priority))
    IN IF mode THEN Project(df, existing_priority)
       ELSE Project(df, other_columns)

\* Lines 70-78.
SelectColumns(df, mode) ==
    LET existing_priority == ExistingPriority(df)
        other_columns == SelectSeq(df.columns,
                             LAMBDA c : c \notin Range(existing_priority))
    IN IF mode THEN Project(df, existing_priority)
       ELSE Project(df, existing_priority \o other_columns)

\* Line 81 testing the trial for truth instead of for presence.
DropFalsyTrial(df) ==
    [columns |-> df.columns,
     rows |-> SelectSeq(df.rows,
                  LAMBDA row : ~isna(row["trial"]) /\ row["trial"] # Num(0))]

\* Line 81, on a table that has the column (without it dropna raises KeyError).
DropNonTrial(df) ==
    [columns |-> df.columns,
     rows |-> SelectSeq(df.rows, LAMBDA row : ~isna(row["trial"]))]

\* Lines 30-85 for one file: the table appended at line 82, or the failure
\* caught at line 84 (read_csv raised, or dropna found no 'trial' column).
ProcessFile(file, mode) ==
    IF ~file.parsable THEN [ok |-> FALSE, df |-> EmptyFrame]
    ELSE LET raw_df == [columns |-> file.columns, rows |-> file.rows]
             final_df == SelectColumns(MergeResponses(CleanPaths(raw_df)), mode)
         IN IF "trial" \notin Range(final_df.columns)
            THEN [ok |-> FALSE, df |-> EmptyFrame]
            ELSE [ok |-> TRUE, df |-> DropNonTrial(final_df)]

\* The columns of pd.concat(frames): join='outer', sort=False keeps each name
\* where it first appears.
RECURSIVE ConcatColumns(_)
ConcatColumns(frames) ==
    IF frames = <<>> THEN <<>>
    ELSE LET before == ConcatColumns(SubSeq(frames, 1, Len(frames) - 1))
             last == frames[Len(frames)].columns
         IN before \o SelectSeq(last, LAMBDA c : c \notin Range(before))

\* A row of one frame in the concatenation: NaN in the columns it lacks.
Reindex(row, cols) ==
    [c \in Range(cols) |-> IF c \in DOMAIN row THEN row[c] ELSE NaN]

\* The concatenation with each new table put in front.
RECURSIVE ConcatRowsLastFirst(_, _)
ConcatRowsLastFirst(frames, cols) ==
    IF frames = <<>> THEN <<>>
    ELSE LET f == Head(frames)
         IN ConcatRowsLastFirst(Tail(frames), cols)
            \o [r \in DOMAIN f.rows |-> Reindex(f.rows[r], cols)]

RECURSIVE ConcatRows(_, _)
ConcatRows(frames, cols) ==
    IF frames = <<>> THEN <<>>
    ELSE LET f == Head(frames)
         IN [r \in DOMAIN f.rows |-> Reindex(f.rows[r], cols)]
            \o ConcatRows(Tail(frames), cols)

\* Line 89: pd.concat(processed_dataframes, ignore_index=True).
Concat(frames) ==
    LET cols == ConcatColumns(frames)
    IN [columns |-> cols, rows |-> ConcatRows(frames, cols)]

(***************************************************************************)
(* The output file.  to_csv writes a missing cell as an empty field, a     *)
(* text as itself and a number in digits; read_csv reads an empty field    *)
(* and the field 'nan' as missing, and makes a column numeric when every   *)
(* field of it that is not missing is a number.                            *)
(***************************************************************************)
CsvField(c) ==
    CASE c.kind = "nan" -> <<>>
      [] c.kind = "str" -> c.s
      [] c.kind = "num" -> IntText(c.n)

IsNaField(t) == t = <<>> \/ t = nan_text

IsNumberField(t) == t # <<>> /\ \A i \in DOMAIN t : t[i] \in Range(Digits)

DigitValue(ch) == CHOOSE d \in 0..9 : Digits[d + 1] = ch

RECURSIVE TextInt(_)
TextInt(t) ==
    IF t = <<>> THEN 0
    ELSE 10 * TextInt(SubSeq(t, 1, Len(t) - 1)) + DigitValue(t[Len(t)])

\* What pd.read_csv returns for the file that to_csv wrote from df.
ReadBack(df) ==
    LET field(r, c) == CsvField(df.rows[r][c])
        numeric(c) == \A r \in DOMAIN df.rows :
                          IsNaField(field(r, c)) \/ IsNumberField(field(r, c))
        cell(r, c) ==
            IF IsNaField(field(r, c)) THEN NaN
            ELSE IF numeric(c) THEN Num(TextInt(field(r, c)))
            ELSE Str(field(r, c))
    IN [origin |-> "output", parsable |-> TRUE, columns |-> df.columns,
        rows |-> [r \in DOMAIN df.rows |->
                     [c \in Range(df.columns) |-> cell(r, c)]]]

EndsWith(t, suffix) ==
    /\ Len(t) >= Len(suffix)
    /\ SubSeq(t, Len(t) - Len(suffix) + 1, Len(t)) = suffix

\* Lines 90-91.
WithCsvSuffix(name) ==
    IF EndsWith(name, csv_suffix) THEN name ELSE name \o csv_suffix

\* The folder after to_csv wrote file into it: a file of that name is
\* overwritten where it is, a new one appears anywhere in the glob order.
PutOutput(files, file, pos) ==
    IF \E i \in DOMAIN files : files[i].origin = "output"
    THEN [i \in DOMAIN files |->
             IF files[i].origin = "output" THEN file ELSE files[i]]
    ELSE SubSeq(files, 1, pos - 1) \o <<file>> \o SubSeq(files, pos, Len(files))

(***************************************************************************)
(* The session files the folder may hold, as read_csv returns them.        *)
(***************************************************************************)
InputFile(columns, rows) ==
    [origin |-> "input", parsable |-> TRUE, columns |-> columns, rows |-> rows]

\* A trial row after an instruction row that has a response and a picture.
FileMain ==
    InputFile(<<"trial", "image_file", "valence_resp.keys">>,
        << ("trial" :> NaN) @@ ("image_file" :> Str(<<"d", "\\", "a">>))
               @@ ("valence_resp.keys" :> Str(<<"n", "u", "m", "_", "3">>)),
           ("trial" :> Num(0)) @@ ("image_file" :> Str(<<"d", "/", "b">>))
               @@ ("valence_resp.keys" :> Str(<<"n", "u", "m", "_", "4">>)) >>)

\* A practice session: a metadata column first, other priority columns.
FilePractice ==
    InputFile(<<"frameRate", "participant", "trial", "practice_valence_resp.keys">>,
        << ("frameRate" :> Num(60)) @@ ("participant" :> Str(<<"p">>))
               @@ ("trial" :> Num(1))
               @@ ("practice_valence_resp.keys" :> Str(<<"N", "U", "M", "_", "5">>)),
           ("frameRate" :> Num(60)) @@ ("participant" :> Str(<<"p">>))
               @@ ("trial" :> Num(2))
               @@ ("practice_valence_resp.keys" :> NaN) >>)

\* Only a welcome screen: no row has a trial.
FileNoTrials ==
    InputFile(<<"trial", "image_file">>,
        << ("trial" :> NaN) @@ ("image_file" :> NaN) >>)

\* No trial column at all.
FileNoTrialColumn ==
    InputFile(<<"participant", "image_file">>,
        << ("participant" :> Str(<<"q">>)) @@ ("image_file" :> Str(<<"c">>)) >>)

\* Not a table: read_csv raises.
FileMalformed ==
    [origin |-> "input", parsable |-> FALSE, columns |-> <<>>, rows |-> <<>>]

\* Both response columns, the practice one first in the file.
FileBoth ==
    InputFile(<<"practice_valence_resp.keys", "valence_resp.keys", "trial", "music_file">>,
        << ("practice_valence_resp.keys" :> Str(<<"n", "u", "m", "_", "9">>))
               @@ ("valence_resp.keys" :> Str(<<"n", "u", "m", "_", "3">>))
               @@ ("trial" :> Num(1)) @@ ("music_file" :> Str(<<"m", "/", "\\", "s">>)),
           ("practice_valence_resp.keys" :> Str(<<"n", "u", "m", "_", "5">>))
               @@ ("valence_resp.keys" :> NaN)
               @@ ("trial" :> Num(2)) @@ ("music_file" :> NaN) >>)

\* A header and no rows.
FileHeaderOnly == InputFile(<<"trial", "participant">>, <<>>)

FileCatalogue ==
    {FileMain, FilePractice, FileNoTrials, FileNoTrialColumn, FileMalformed,
     FileBoth, FileHeaderOnly}

RECURSIVE SeqsUpTo(_, _)
SeqsUpTo(S, n) ==
    IF n = 0 THEN {<<>>}
    ELSE LET shorter == SeqsUpTo(S, n - 1)
         IN shorter \cup {Append(q, x) : q \in shorter, x \in S}

\* What the user may have typed in the filename box (line 12).
Filenames == {<<>>, csv_suffix, <<"o">>, <<"o">> \o csv_suffix}

NoRun ==
    [summary_mode |-> FALSE, output_filename |-> <<>>, csv_files |-> <<>>,
     kept_from |-> <<>>, errors |-> {}, outcome |-> "none",
     master_df |-> EmptyFrame, wrote |-> FALSE]

NotWritten == [exists |-> FALSE, table |-> EmptyFrame]

(***************************************************************************)
(* The handler process_experiment_data, launched at most twice on the      *)
(* same folder.                                                            *)
(***************************************************************************)
RunInit ==
    /\ disk \in SeqsUpTo(FileCatalogue, MaxFiles)
    /\ pc = "idle"
    /\ stage = "first"
    /\ output_filename = csv_suffix
    /\ summary_mode = TRUE
    /\ in_folder = FALSE
    /\ csv_files = <<>>
    /\ next_file = 1
    /\ processed_dataframes = <<>>
    /\ kept_from = <<>>
    /\ errors = {}
    /\ outcome = "none"
    /\ master_df = EmptyFrame
    /\ written = NotWritten
    /\ first_run = NoRun

StepIdle ==
    /\ value = NaN
    /\ result = NaN
    /\ step = "none"

Init == RunInit /\ StepIdle

\* Lines 12-18: the filename is empty or the bare extension.
InvalidName ==
    /\ pc = "idle"
    /\ stage # "over"
    /\ \E name \in Filenames :
          /\ name = <<>> \/ name = csv_suffix
          /\ output_filename' = name
    /\ outcome' = "warning"
    /\ UNCHANGED <<disk, pc, stage, summary_mode, in_folder, csv_files,
                   next_file, processed_dataframes, kept_from, errors,
                   master_df, written, first_run>>
    /\ UNCHANGED step_vars

\* Lines 12-23: a valid filename, and the folder dialog is dismissed.
NoDirectory ==
    /\ pc = "idle"
    /\ stage # "over"
    /\ \E name \in Filenames :
          /\ ~(name = <<>> \/ name = csv_suffix)
          /\ output_filename' = name
    /\ outcome' = "cancelled"
    /\ UNCHANGED <<disk, pc, stage, summary_mode, in_folder, csv_files,
                   next_file, processed_dataframes, kept_from, errors,
                   master_df, written, first_run>>
    /\ UNCHANGED step_vars

\* Lines 12-27: a valid filename and a folder; glob lists its files.
Start ==
    /\ pc = "idle"
    /\ stage # "over"
    /\ \E name \in Filenames, mode \in BOOLEAN, inside \in BOOLEAN :
          /\ ~(name = <<>> \/ name = csv_suffix)
          /\ output_filename' = name
          /\ summary_mode' = mode
          /\ in_folder' = inside
    /\ csv_files' = disk
    /\ processed_dataframes' = <<>>
    /\ next_file' = 1
    /\ kept_from' = <<>>
    /\ errors' = {}
    /\ outcome' = "running"
    /\ master_df' = EmptyFrame
    /\ written' = NotWritten
    /\ pc' = "loop"
    /\ UNCHANGED <<disk, stage, first_run>>
    /\ UNCHANGED step_vars

\* Lines 29-85 with the try around the loop: a failure ends the loop.
LoopStepAbort ==
    /\ pc = "loop"
    /\ next_file <= Len(csv_files)
    /\ LET r == ProcessFile(csv_files[next_file], summary_mode)
       IN IF r.ok
          THEN /\ processed_dataframes' = Append(processed_dataframes, r.df)
               /\ kept_from' = Append(kept_from, next_file)
               /\ errors' = errors
               /\ next_file' = next_file + 1
          ELSE /\ errors' = errors \cup {next_file}
               /\ next_file' = Len(csv_files) + 1
               /\ UNCHANGED <<processed_dataframes, kept_from>>
    /\ UNCHANGED <<disk, pc, stage, output_filename, summary_mode, in_folder,
                   csv_files, outcome, master_df, written, first_run>>
    /\ UNCHANGED step_vars

\* Lines 29-85: one iteration of the loop over csv_files.
LoopStep ==
    /\ pc = "loop"
    /\ next_file <= Len(csv_files)
    /\ LET r == ProcessFile(csv_files[next_file], summary_mode)
       IN IF r.ok
          THEN /\ processed_dataframes' = Append(processed_dataframes, r.df)
               /\ kept_from' = Append(kept_from, next_file)
               /\ errors' = errors
          ELSE /\ errors' = errors \cup {next_file}
               /\ UNCHANGED <<processed_dataframes, kept_from>>
    /\ next_file' = next_file + 1
    /\ UNCHANGED <<disk, pc, stage, output_filename, summary_mode, in_folder,
                   csv_files, outcome, master_df, written, first_run>>
    /\ UNCHANGED step_vars

\* Lines 87-97: the loop is over.
Compile ==
    /\ pc = "loop"
    /\ next_file > Len(csv_files)
    /\ IF processed_dataframes # <<>>
       THEN /\ master_df' = Concat(processed_dataframes)
            /\ output_filename' = WithCsvSuffix(output_filename)
            /\ written' = [exists |-> TRUE, table |-> master_df']
            /\ IF in_folder
               THEN \E pos \in 1..(Len(disk) + 1) :
                        disk' = PutOutput(disk, ReadBack(master_df'), pos)
               ELSE disk' = disk
            /\ outcome' = "success"
       ELSE /\ outcome' = "error"
            /\ UNCHANGED <<master_df, output_filename, written, disk>>
    /\ pc' = "idle"
    /\ stage' = IF stage = "first" THEN "second" ELSE "over"
    /\ first_run' =
          IF stage = "first"
          THEN [summary_mode |-> summary_mode,
                output_filename |-> output_filename',
                csv_files |-> csv_files,
                kept_from |-> kept_from,
                errors |-> errors,
                outcome |-> outcome',
                master_df |-> master_df',
                wrote |-> written'.exists]
          ELSE first_run
    /\ UNCHANGED <<summary_mode, in_folder, csv_files, next_file,
                   processed_dataframes, kept_from, errors>>
    /\ UNCHANGED step_vars

Next == InvalidName \/ NoDirectory \/ Start \/ LoopStep \/ Compile

Spec == Init /\ [][Next]_vars

(***************************************************************************)
(* One pipeline step applied to one table.                                 *)
(***************************************************************************)
RunIdle ==
    /\ disk = <<>>
    /\ pc = "idle"
    /\ stage = "first"
    /\ output_filename = csv_suffix
    /\ summary_mode = TRUE
    /\ in_folder = FALSE
    /\ csv_files = <<>>
    /\ next_file = 1
    /\ processed_dataframes = <<>>
    /\ kept_from = <<>>
    /\ errors = {}
    /\ outcome = "none"
    /\ master_df = EmptyFrame
    /\ written = NotWritten
    /\ first_run = NoRun

\* The tables of at most n rows over the columns cols with cells from cells.
TablesOver(cols, cells, n) ==
    {[columns |-> cols, rows |-> rows] :
        rows \in SeqsUpTo([Range(cols) -> cells], n)}

PathAlphabet == {"a", "\\", "/", "\n"}

PathCells == {NaN} \cup {Str(t) : t \in SeqsUpTo(PathAlphabet, MaxPathLen)}

PathLayouts ==
    {<<"image_file">>, <<"music_file", "image_file">>,
     <<"frameRate", "music_file">>, <<"frameRate">>}

\* One row, the same cell in every column.
PathInit ==
    /\ RunIdle
    /\ \E cols \in PathLayouts, c \in PathCells :
          value = [columns |-> cols, rows |-> <<[x \in Range(cols) |-> c]>>]
    /\ result = value
    /\ step = "input"

\* Lines 36-38 on the table.
CleanOnce ==
    /\ step = "input"
    /\ result' = CleanPaths(value)
    /\ step' = "once"
    /\ UNCHANGED value
    /\ UNCHANGED run_vars

\* Lines 36-38 on their own result.
CleanTwice ==
    /\ step = "once"
    /\ result' = CleanPaths(result)
    /\ step' = "twice"
    /\ UNCHANGED value
    /\ UNCHANGED run_vars

PathNext == CleanOnce \/ CleanTwice

SpecPath == PathInit /\ [][PathNext]_vars

ResponseCells ==
    {NaN, Str(<<"n", "u", "m", "_", "3">>), Str(<<"N", "U", "M", "_", "9">>),
     Str(<<"7">>)}

ResponseLayouts ==
    {<<"trial">>,
     <<"valence_resp.keys", "trial">>,
     <<"trial", "practice_valence_resp.keys">>,
     <<"valence_resp.keys", "practice_valence_resp.keys">>,
     <<"practice_valence_resp.keys", "valence_resp.keys">>,
     <<"practice_fear_resp.keys", "valence_resp.keys">>}

KeyAlphabet == {"n", "u", "m", "_", "N", "a"}

KeyCells == {Str(t) : t \in SeqsUpTo(KeyAlphabet, MaxKeyLen)}

\* A table of response columns with a few cells each, or one response
\* column holding one text.
MergeInit ==
    /\ RunIdle
    /\ \/ \E cols \in ResponseLayouts :
             value \in TablesOver(cols, ResponseCells, MaxMergeRows)
       \/ \E c \in KeyCells :
             value = [columns |-> <<"arousal_resp.keys">>,
                      rows |-> <<[x \in {"arousal_resp.keys"} |-> c]>>]
    /\ result = value
    /\ step = "input"

\* Lines 50-59 on the table.
Merge ==
    /\ step = "input"
    /\ result' = MergeResponses(value)
    /\ step' = "merged"
    /\ UNCHANGED value
    /\ UNCHANGED run_vars

MergeNext == Merge

SpecMerge == MergeInit /\ [][MergeNext]_vars

(***************************************************************************)
(* Properties.                                                             *)
(***************************************************************************)
Finished == pc = "idle" /\ outcome \in {"success", "error"}

\* The cells of one column of a table, in row order.
ColumnCells(rows, col) == [r \in DOMAIN rows |-> rows[r][col]]

Present(cells) == SelectSeq(cells, LAMBDA c : ~isna(c))

HasTrialColumn(file) == file.parsable /\ "trial" \in Range(file.columns)

\* C1: every row of every kept table, and of the table written, has a trial
\* that is not missing; the rows kept from a file are exactly its rows whose
\* trial is present, the trial 0 among them, whatever the other cells hold.
C1_TrialNeverMissing ==
    /\ \A k \in DOMAIN processed_dataframes :
          LET src == csv_files[kept_from[k]]
              df == processed_dataframes[k]
          IN /\ "trial" \in Range(df.columns)
             /\ \A r \in DOMAIN df.rows : ~isna(df.rows[r]["trial"])
             /\ ColumnCells(df.rows, "trial")
                    = Present(ColumnCells(src.rows, "trial"))
    /\ written.exists =>
          /\ "trial" \in Range(written.table.columns)
          /\ \A r \in DOMAIN written.table.rows :
                ~isna(written.table.rows[r]["trial"])

\* C1 witness: a table was written that keeps a row of trial 0, from a file
\* one of whose rows had cells but no trial and was dropped.
C1_Witness ==
    /\ Finished /\ written.exists
    /\ \E r \in DOMAIN written.table.rows : written.table.rows[r]["trial"] = Num(0)
    /\ \E k \in DOMAIN processed_dataframes :
          LET src == csv_files[kept_from[k]]
          IN \E r \in DOMAIN src.rows :
                /\ isna(src.rows[r]["trial"])
                /\ \E c \in Range(src.columns) : ~isna(src.rows[r][c])
                /\ Len(processed_dataframes[k].rows) < Len(src.rows)

\* The indices of S in increasing order.
RECURSIVE Ascending(_)
Ascending(S) ==
    IF S = {} THEN <<>>
    ELSE LET m == CHOOSE x \in S : \A y \in S : x <= y
         IN <<m>> \o Ascending(S \ {m})

\* C2: of the files read so far, those that cannot be parsed or have no trial
\* column are reported and contribute nothing, every other one contributes
\* its kept rows, in order; the handler ends only after the last file.
C2_BadFileSkippedOthersKept ==
    LET read == 1..(next_file - 1)
        bad == {i \in read : ~HasTrialColumn(csv_files[i])}
    IN /\ next_file <= Len(csv_files) + 1
       /\ errors = bad
       /\ kept_from = Ascending(read \ bad)
       /\ Len(processed_dataframes) = Len(kept_from)
       /\ \A k \in DOMAIN processed_dataframes :
             Len(processed_dataframes[k].rows)
                 = Len(Present(ColumnCells(csv_files[kept_from[k]].rows, "trial")))
       /\ outcome \in {"success", "error"} => next_file = Len(csv_files) + 1

\* C2 witness: a run has ended well in which a bad file came before a file
\* that contributed rows.
C2_Witness ==
    /\ Finished /\ outcome = "success"
    /\ \E i \in errors, k \in DOMAIN kept_from :
          /\ i < kept_from[k]
          /\ processed_dataframes[k].rows # <<>>

\* C3: when no file yielded a kept row, the run ends in failure and writes
\* no output file.
C3_NoKeptRowsIsFailure ==
    (Finished /\ \A k \in DOMAIN processed_dataframes :
                     processed_dataframes[k].rows = <<>>)
        => (outcome = "error" /\ ~written.exists)

IsPriority(c) == c \in Range(priority_columns)

PriorityRank(c) == CHOOSE i \in DOMAIN priority_columns : priority_columns[i] = c

\* C5: in the table written, the priority columns stand in the order of
\* priority_columns, and before every other column.
C5_PriorityColumnsFirst ==
    written.exists =>
        LET cols == written.table.columns
        IN \A i, j \in DOMAIN cols :
              (i < j /\ IsPriority(cols[j])) =>
                  /\ IsPriority(cols[i])
                  /\ PriorityRank(cols[i]) < PriorityRank(cols[j])

\* The kept trials of the files, file by file in the order read.
RECURSIVE ExpectedTrials(_)
ExpectedTrials(files) ==
    IF files = <<>> THEN <<>>
    ELSE (IF HasTrialColumn(Head(files))
          THEN Present(ColumnCells(Head(files).rows, "trial"))
          ELSE <<>>)
         \o ExpectedTrials(Tail(files))

RECURSIVE RowsBefore(_, _)
RowsBefore(frames, k) ==
    IF k = 1 THEN 0
    ELSE RowsBefore(frames, k - 1) + Len(frames[k - 1].rows)

\* C6: the rows written are the kept rows of the processed files, file after
\* file in the order read and in their order in the file, each cell as the
\* file's table has it and missing in the columns the file lacks.
C6_RowsAreTheConcatenation ==
    (Finished /\ written.exists) =>
        LET out == written.table
            frames == processed_dataframes
        IN /\ Len(out.rows) = RowsBefore(frames, Len(frames) + 1)
           /\ \A k \in DOMAIN frames : \A r \in DOMAIN frames[k].rows :
                 LET row == out.rows[RowsBefore(frames, k) + r]
                 IN \A c \in Range(out.columns) :
                       row[c] = IF c \in Range(frames[k].columns)
                                THEN frames[k].rows[r][c]
                                ELSE NaN
           /\ \A k \in DOMAIN frames : Range(frames[k].columns) \subseteq Range(out.columns)
           /\ ColumnCells(out.rows, "trial") = ExpectedTrials(csv_files)

\* C6 witness: rows of two files with different columns were written, the
\* later file's after the earlier one's.
C6_Witness ==
    /\ Finished /\ written.exists
    /\ Len(processed_dataframes) = 2
    /\ processed_dataframes[1].rows # <<>>
    /\ Len(processed_dataframes[2].rows) = 2
    /\ processed_dataframes[2].rows[1] # processed_dataframes[2].rows[2]
    /\ Range(processed_dataframes[1].columns) # Range(processed_dataframes[2].columns)
    /\ \E r \in DOMAIN written.table.rows, c \in Range(written.table.columns) :
          c # "valence" /\ isna(written.table.rows[r][c])

\* C7: a second run on the same folder, with the same filename and mode,
\* ends as the first did and compiles the same table.
C7_SecondRunSameTable ==
    (/\ stage = "over"
     /\ first_run.summary_mode = summary_mode
     /\ WithCsvSuffix(first_run.output_filename) = WithCsvSuffix(output_filename))
        => /\ first_run.outcome = outcome
           /\ first_run.master_df = master_df

\* C8: two runs that read the same files, one in each mode, skip the same
\* files and process the same files, and every column written in summary
\* mode is a column written in full mode.
C8_SummaryColumnsSubsetOfFull ==
    (/\ stage = "over"
     /\ first_run.csv_files = csv_files
     /\ first_run.summary_mode # summary_mode)
        => /\ first_run.errors = errors
           /\ first_run.kept_from = kept_from
           /\ first_run.outcome = outcome
           /\ first_run.wrote = written.exists
           /\ LET summary == IF summary_mode THEN master_df ELSE first_run.master_df
                  full == IF summary_mode THEN first_run.master_df ELSE master_df
              IN Range(summary.columns) \subseteq Range(full.columns)

\* C8 witness: the two modes have run on the same files, one of them was
\* skipped, and full mode wrote a column that summary mode did not.
C8_Witness ==
    /\ stage = "over"
    /\ first_run.csv_files = csv_files
    /\ first_run.summary_mode # summary_mode
    /\ outcome = "success"
    /\ errors # {}
    /\ Range(first_run.master_df.columns) # Range(master_df.columns)

IsSeparator(ch) == ch = "\\" \/ ch = "/"

\* The text after the last separator of t, t itself when it has none.
FinalSegment(t) ==
    LET seps == {i \in DOMAIN t : IsSeparator(t[i])}
    IN IF seps = {} THEN t
       ELSE SubSeq(t, (CHOOSE i \in seps : \A j \in seps : j <= i) + 1, Len(t))

OnOneLine(t) == \A i \in DOMAIN t : t[i] # "\n"

\* The claim on one cell v of a path column and what the step made of it.
PathCellCleaned(v, out, anyText) ==
    /\ isna(v) => out = Str(nan_text)
    /\ (~isna(v) /\ (anyText \/ OnOneLine(v.s))) => out = Str(FinalSegment(v.s))
    /\ (~isna(v) /\ \A i \in DOMAIN v.s : ~IsSeparator(v.s[i])) => out = v

PathColumnsCleaned(anyText) ==
    /\ step \in {"once", "twice"} => result.columns = value.columns
    /\ step = "once" =>
          \A c \in Range(value.columns) :
             IF c \in Range(path_columns)
             THEN PathCellCleaned(value.rows[1][c], result.rows[1][c], anyText)
             ELSE result.rows[1][c] = value.rows[1][c]
    /\ step = "twice" => result = CleanPaths(value)

C4_MergePrecedence ==
    step = "merged" =>
        \A e \in DOMAIN merging_map :
            LET entry == merging_map[e]
                has == {k \in DOMAIN entry.source_cols :
                           entry.source_cols[k] \in Range(value.columns)}
            IN IF has = {}
               THEN entry.new_col \notin Range(result.columns)
               ELSE /\ entry.new_col \in Range(result.columns)
                    /\ Len(result.rows) = Len(value.rows)
                    /\ \A r \in DOMAIN value.rows :
                          LET filled == {k \in has :
                                  ~isna(value.rows[r][entry.source_cols[k]])}
                              first == CHOOSE k \in filled : \A j \in filled : k <= j
                          IN IF filled = {}
                             THEN result.rows[r][entry.new_col] = NaN
                             ELSE result.rows[r][entry.new_col]
                                      = CleanResponse(
                                            value.rows[r][entry.source_cols[first]])

\* C4 witness: merged, a table that lists the practice column first, with a
\* row where both responses differ and a row with only the practice response.
C4_Witness ==
    /\ step = "merged"
    /\ value.columns = <<"practice_valence_resp.keys", "valence_resp.keys">>
    /\ \E r1, r2 \in DOMAIN value.rows :
          /\ ~isna(value.rows[r1]["valence_resp.keys"])
          /\ ~isna(value.rows[r1]["practice_valence_resp.keys"])
          /\ value.rows[r1]["valence_resp.keys"]
                 # value.rows[r1]["practice_valence_resp.keys"]
          /\ isna(value.rows[r2]["valence_resp.keys"])
          /\ ~isna(value.rows[r2]["practice_valence_resp.keys"])
          /\ ~isna(result.rows[r2]["valence"])

\* C10: of a response only a leading num_, in any case, is removed; a num_
\* elsewhere stays and a value without the prefix is unchanged; what is left
\* becomes a missing value when it is the text "nan".
C10_OnlyLeadingPrefixRemoved ==
    (step = "merged" /\ value.columns = <<"arousal_resp.keys">>) =>
        LET t == AsTypeStr(value.rows[1]["arousal_resp.keys"])
            stripped == IF StartsWithCI(t, num_prefix)
                        THEN SubSeq(t, Len(num_prefix) + 1, Len(t))
                        ELSE t
        IN result.rows[1]["arousal"]
               = IF stripped = nan_text THEN NaN ELSE Str(stripped)

====
